---- MODULE Spec2Model ----
(***************************************************************************)
(* Timestamp-aware comparator of rust-rocksdb.                             *)
(*                                                                         *)
(*  - the capability: ComparatorWithU64 (tests/cases/test_user_timestamp)  *)
(*    implementing TimestampAwareComparator (src/comparator.rs:50-54);     *)
(*  - the bridge: TimestampAwareComparatorProxy, its extern "C" entry      *)
(*    points, new_timestamp_aware_comparator and ComparatorRAIIWrapper     *)
(*    (src/comparator.rs:56-163).                                          *)
(*                                                                         *)
(* Byte strings are sequences of 0..255.  A result of a comparison is a    *)
(* record [ok, val]: ok = FALSE is a panic (a failed assert!).             *)
(***************************************************************************)
EXTENDS Integers, Sequences, FiniteSets, TLC

VARIABLES
    call,        \* the last direct call of the capability and its outcome
    proxy,       \* heap: proxy state address -> TimestampAwareComparatorProxy
    dbcmp,       \* engine side: DBComparator address -> its state pointer
    wrappers,    \* the live ComparatorRAIIWrapper values (their inner)
    created,     \* per new_timestamp_aware_comparator call: name and result
    ffiCreates,  \* number of crocksdb_comparator_create calls
    destructed,  \* proxy state address -> number of destructor calls on it
    threads,     \* engine threads: the entry point each is in, or returned from
    store,       \* the engine's entries of one column family, in comparator order
    rd           \* the last read of the store and what it returned

vars == <<call, proxy, dbcmp, wrappers, created, ffiCreates, destructed,
          threads, store, rd>>

dbVars == <<store, rd>>

bridgeVars == <<proxy, dbcmp, wrappers, created, ffiCreates, destructed,
                threads>>

(***************************************************************************)
(* Bounds of the model.                                                    *)
(***************************************************************************)
MaxRawLen == 2
MaxCreates == 2
RawBytes == {1, 2}
TsVals == {0, 1, 2, 256}
Threads == {"t1", "t2"}

(***************************************************************************)
(* Byte strings.                                                           *)
(***************************************************************************)
\* size_of::<u64>() / size_of::<u8>()
timestamp_size == 8

RECURSIVE SeqsUpTo(_, _)
SeqsUpTo(S, n) ==
    IF n = 0 THEN {<<>>}
    ELSE LET shorter == SeqsUpTo(S, n - 1)
         IN  shorter \cup {Append(s, x) : s \in {t \in shorter : Len(t) = n - 1}, x \in S}

RECURSIVE Shr8(_, _)
Shr8(x, k) == IF k = 0 THEN x ELSE Shr8(x \div 256, k - 1)

\* u64::to_be_bytes: most significant byte first, 8 bytes
to_be_bytes(x) == [i \in 1..8 |-> Shr8(x, 8 - i) % 256]

RECURSIVE u64_from_be(_)
u64_from_be(bs) ==
    IF bs = <<>> THEN 0
    ELSE u64_from_be(SubSeq(bs, 1, Len(bs) - 1)) * 256 + bs[Len(bs)]

Sign(n) == IF n < 0 THEN -1 ELSE IF n > 0 THEN 1 ELSE 0

Ok(v) == [ok |-> TRUE, val |-> v]
Panic == [ok |-> FALSE, val |-> 0]

\* x is before y in the byte-lexicographic order (stated without recursion)
LexLess(x, y) ==
    \E i \in 1..(Len(x) + 1) :
        /\ i <= Len(y)
        /\ \A j \in 1..(i - 1) : x[j] = y[j]
        /\ (i = Len(x) + 1 \/ x[i] < y[i])

LexSign(x, y) == IF LexLess(x, y) THEN -1 ELSE IF LexLess(y, x) THEN 1 ELSE 0

\* <[u8] as Ord>::cmp, cast `as i32`: Less = -1, Equal = 0, Greater = 1
RECURSIVE slice_cmp(_, _)
slice_cmp(x, y) ==
    IF x = <<>> /\ y = <<>> THEN 0
    ELSE IF x = <<>> THEN -1
    ELSE IF y = <<>> THEN 1
    ELSE IF Head(x) < Head(y) THEN -1
    ELSE IF Head(x) > Head(y) THEN 1
    ELSE slice_cmp(Tail(x), Tail(y))

(***************************************************************************)
(* ComparatorWithU64.                                                      *)
(***************************************************************************)
\* &key[key.len() - timestamp_size..]   (called with Len(key) >= timestamp_size)
extract_timestamp_from_user_key(key) ==
    SubSeq(key, Len(key) - timestamp_size + 1, Len(key))

\* &key[..key.len() - timestamp_size]
strip_timestamp_from_user_key(key) ==
    SubSeq(key, 1, Len(key) - timestamp_size)

\* faulty variant of compare_timestamp: the operands swapped
compare_timestamp_reversed(a, b) == Ok(slice_cmp(b, a))

compare_timestamp(a, b) == Ok(slice_cmp(a, b))

\* faulty variant of cwt_asserts: >= for >
cwt_asserts_ge(a, a_has_ts, b, b_has_ts) ==
    /\ (~a_has_ts \/ Len(a) >= timestamp_size)
    /\ (~b_has_ts \/ Len(b) >= timestamp_size)

\* the two assert! lines of compare_without_timestamp
cwt_asserts(a, a_has_ts, b, b_has_ts) ==
    /\ (~a_has_ts \/ Len(a) > timestamp_size)
    /\ (~b_has_ts \/ Len(b) > timestamp_size)

\* faulty variants of compare_without_timestamp: no operand is stripped; only a is
cwt_keeps_timestamp(a, a_has_ts, b, b_has_ts) ==
    IF ~cwt_asserts(a, a_has_ts, b, b_has_ts) THEN Panic
    ELSE Ok(slice_cmp(a, b))

cwt_strips_a_only(a, a_has_ts, b, b_has_ts) ==
    IF ~cwt_asserts(a, a_has_ts, b, b_has_ts) THEN Panic
    ELSE LET raw_a == IF a_has_ts THEN strip_timestamp_from_user_key(a) ELSE a
         IN  Ok(slice_cmp(raw_a, b))

compare_without_timestamp(a, a_has_ts, b, b_has_ts) ==
    IF ~cwt_asserts(a, a_has_ts, b, b_has_ts) THEN Panic
    ELSE LET raw_a == IF a_has_ts THEN strip_timestamp_from_user_key(a) ELSE a
             raw_b == IF b_has_ts THEN strip_timestamp_from_user_key(b) ELSE b
         IN  Ok(slice_cmp(raw_a, raw_b))

\* faulty variants of compare: the tie-break not negated; the timestamps consulted first
compare_ascending_ts(a, b) ==
    LET ret == compare_without_timestamp(a, TRUE, b, TRUE)
    IN  IF ~ret.ok THEN Panic
        ELSE IF ret.val # 0 THEN ret
        ELSE compare_timestamp(extract_timestamp_from_user_key(a),
                               extract_timestamp_from_user_key(b))

compare_timestamp_first(a, b) ==
    LET ret == compare_without_timestamp(a, TRUE, b, TRUE)
    IN  IF ~ret.ok THEN Panic
        ELSE LET t == compare_timestamp(extract_timestamp_from_user_key(a),
                                        extract_timestamp_from_user_key(b))
             IN  IF t.val # 0 THEN Ok(-t.val) ELSE ret

compare(a, b) ==
    LET ret == compare_without_timestamp(a, TRUE, b, TRUE)
    IN  IF ~ret.ok THEN Panic
        ELSE IF ret.val # 0 THEN ret
        ELSE Ok(-(compare_timestamp(extract_timestamp_from_user_key(a),
                                    extract_timestamp_from_user_key(b)).val))

(***************************************************************************)
(* The inputs of the direct calls: full keys raw||ts, bare raw keys (the   *)
(* empty one included) and bare timestamps (an empty raw key with its      *)
(* timestamp: exactly timestamp_size bytes).                               *)
(***************************************************************************)
RawKeys == SeqsUpTo(RawBytes, MaxRawLen)
Timestamps == {to_be_bytes(x) : x \in TsVals}
FullKeys == {r \o t : r \in RawKeys \ {<<>>}, t \in Timestamps}
Inputs == FullKeys \cup RawKeys \cup Timestamps

\* The operands are drawn first; one operation is then applied to them.
Drawn(x, y, fa, fb) == [op |-> "none", a |-> x, b |-> y, a_has_ts |-> fa,
                        b_has_ts |-> fb, ret |-> Ok(0)]

CallCompare ==
    /\ call.op = "none"
    /\ call' = [call EXCEPT !.op = "compare", !.ret = compare(call.a, call.b)]
    /\ UNCHANGED bridgeVars
    /\ UNCHANGED dbVars

CallCompareTimestamp ==
    /\ call.op = "none"
    /\ call' = [call EXCEPT !.op = "compare_timestamp",
                            !.ret = compare_timestamp(call.a, call.b)]
    /\ UNCHANGED bridgeVars
    /\ UNCHANGED dbVars

CallCompareWithoutTimestamp ==
    /\ call.op = "none"
    /\ call' = [call EXCEPT !.op = "compare_without_timestamp",
                            !.ret = compare_without_timestamp(
                                        call.a, call.a_has_ts, call.b, call.b_has_ts)]
    /\ UNCHANGED bridgeVars
    /\ UNCHANGED dbVars

NextCmp == CallCompare \/ CallCompareTimestamp \/ CallCompareWithoutTimestamp

(***************************************************************************)
(* The bridge.                                                             *)
(***************************************************************************)
\* the names handed to new_timestamp_aware_comparator (0 is the NUL byte)
Names == {<<>>, <<98, 99>>, <<97, 0, 98>>}

\* The keys the engine threads pass through the entry points.  The engine is
\* handed ts_sz at creation and passes keys that carry a timestamp.
BridgeKeys == {<<1>> \o to_be_bytes(1), <<1>> \o to_be_bytes(2)}
KeyPairs == {<<x, y>> : x \in BridgeKeys, y \in BridgeKeys}

\* the c_uchar flag values the engine passes to compare_without_ts
FlagBytes == {0, 2}

\* proxy state addresses and DBComparator addresses; an address is never reused
Addrs == 1..MaxCreates

HasNul(bytes) == \E i \in 1..Len(bytes) : bytes[i] = 0

\* faulty variant of CStringNew: an interior NUL byte is not detected
CStringNew_unchecked(bytes) == [ok |-> TRUE, cstr |-> Append(bytes, 0)]

\* CString::new: Err on an interior NUL byte, else the bytes and a terminator
CStringNew(bytes) ==
    IF HasNul(bytes) THEN [ok |-> FALSE, cstr |-> <<>>]
    ELSE [ok |-> TRUE, cstr |-> Append(bytes, 0)]

\* what the engine reads through a *const c_char: the bytes before the first NUL
RECURSIVE c_str(_)
c_str(mem) ==
    IF mem = <<>> \/ Head(mem) = 0 THEN <<>>
    ELSE <<Head(mem)>> \o c_str(Tail(mem))

Unallocated == [status |-> "unallocated", name |-> <<>>, comparator |-> "none"]
NoComparator == [status |-> "none", state |-> 0, ts_sz |-> 0]
Idle == [pc |-> "idle", entry |-> "none", cmp |-> 0, a |-> <<>>, b |-> <<>>,
         a_has_ts_raw |-> 0, b_has_ts_raw |-> 0, ret |-> 0, str |-> <<>>]

\* no read has been made
NoRead == [op |-> "none", key |-> <<>>, T |-> 0, S |-> 0, out |-> <<>>]

InitBridge ==
    /\ proxy = [s \in Addrs |-> Unallocated]
    /\ dbcmp = [d \in Addrs |-> NoComparator]
    /\ wrappers = {}
    /\ created = <<>>
    /\ ffiCreates = 0
    /\ destructed = [s \in Addrs |-> 0]
    /\ threads = [t \in Threads |-> Idle]
    /\ store = <<>>
    /\ rd = NoRead

Init ==
    /\ call = Drawn(<<>>, <<>>, FALSE, FALSE)
    /\ InitBridge

InitCmp ==
    /\ call \in {Drawn(x, y, fa, fb) : x \in Inputs, y \in Inputs,
                                       fa \in BOOLEAN, fb \in BOOLEAN}
    /\ InitBridge

\* the next address Box::new returns
NextAddr == Cardinality({s \in Addrs : proxy[s].status # "unallocated"}) + 1

\* crocksdb_comparator_create(state, ts_sz, destructor, compare, compare_ts,
\* compare_without_ts, name): the engine's comparator object over the state
crocksdb_comparator_create(state, ts_sz) ==
    /\ dbcmp' = [dbcmp EXCEPT ![state] =
                    [status |-> "live", state |-> state, ts_sz |-> ts_sz]]
    /\ ffiCreates' = ffiCreates + 1

\* new_timestamp_aware_comparator(comparator_name, ts_sz, comparator)
new_timestamp_aware_comparator(comparator_name, ts_sz) ==
    LET c_name == CStringNew(comparator_name)
        state == NextAddr
    IN  /\ Len(created) < MaxCreates
        /\ IF ~c_name.ok
           THEN /\ created' = Append(created, [name |-> comparator_name,
                                               ok |-> FALSE, inner |-> 0])
                /\ UNCHANGED <<proxy, dbcmp, wrappers, ffiCreates>>
           ELSE /\ proxy' = [proxy EXCEPT ![state] =
                               [status |-> "live", name |-> c_name.cstr,
                                comparator |-> "ComparatorWithU64"]]
                /\ crocksdb_comparator_create(state, ts_sz)
                /\ wrappers' = wrappers \cup {state}
                /\ created' = Append(created, [name |-> comparator_name,
                                               ok |-> TRUE, inner |-> state])
        /\ UNCHANGED <<call, store, rd, destructed, threads>>

Create == \E n \in Names : new_timestamp_aware_comparator(n, timestamp_size)

\* faulty variant of destructor: the proxy is not reclaimed
destructor_leak(s) == proxy

\* extern "C" fn destructor: Box::from_raw reclaims the proxy
destructor(s) == [proxy EXCEPT ![s] = [status |-> "freed", name |-> <<>>,
                                       comparator |-> "none"]]

\* faulty variant of entry_borrows: the entry point takes the proxy back into a Box,
\* which reclaims it when the entry point returns
entry_takes_box(s) == destructor(s)

\* The entry points reach the proxy through a reference: &(*proxy).comparator,
\* (*proxy).name.as_ptr().  The proxy is as it was when they return.
entry_borrows(s) == proxy

\* The engine's side of section 5: it releases a comparator only when no
\* entry point is executing on it.
EngineQuiescent(d) == \A t \in Threads : ~(threads[t].pc = "running" /\ threads[t].cmp = d)

\* The engine invokes entry points only on a comparator it has not released.
EngineHolds(d) == dbcmp[d].status = "live"

\* crocksdb_comparator_destroy: deletes the engine's comparator object, which
\* calls the destructor entry point it was created with on its state
crocksdb_comparator_destroy(d) ==
    /\ dbcmp' = [dbcmp EXCEPT ![d].status = "destroyed"]
    /\ proxy' = destructor(dbcmp[d].state)
    /\ destructed' = [destructed EXCEPT ![dbcmp[d].state] = @ + 1]

\* impl Drop for ComparatorRAIIWrapper
Drop(d) ==
    /\ d \in wrappers
    /\ EngineQuiescent(d)
    /\ wrappers' = wrappers \ {d}
    /\ crocksdb_comparator_destroy(d)
    /\ UNCHANGED <<call, store, rd, created, ffiCreates, threads>>

\* An engine thread enters an entry point of comparator d.
Invoke(t, d, entry, x, y, fa, fb) ==
    /\ threads[t].pc # "running"
    /\ EngineHolds(d)
    /\ threads' = [threads EXCEPT ![t] =
                      [pc |-> "running", entry |-> entry, cmp |-> d, a |-> x, b |-> y,
                       a_has_ts_raw |-> fa, b_has_ts_raw |-> fb, ret |-> 0,
                       str |-> <<>>]]
    /\ UNCHANGED <<call, store, rd, proxy, dbcmp, wrappers, created, ffiCreates, destructed>>

InvokeName == \E t \in Threads, d \in Addrs : Invoke(t, d, "name", <<>>, <<>>, 0, 0)

InvokeCompare ==
    \E t \in Threads, d \in Addrs, k \in KeyPairs :
        Invoke(t, d, "compare", k[1], k[2], 0, 0)

InvokeCompareTs ==
    \E t \in Threads, d \in Addrs, k \in KeyPairs :
        Invoke(t, d, "compare_ts", k[1], k[2], 0, 0)

InvokeCompareWithoutTs ==
    \E t \in Threads, d \in Addrs, k \in KeyPairs, fa \in FlagBytes, fb \in FlagBytes :
        Invoke(t, d, "compare_without_ts", k[1], k[2], fa, fb)

\* what a read of freed memory may produce
GarbageNames == {<<>>, <<255>>}
GarbageInts == {-1, 0, 1}

\* faulty variant of name: the terminator is part of what is returned
name_with_terminator(s) == proxy[s].name

\* extern "C" fn name: (*proxy).name.as_ptr(), read by the engine as a C string
name(s) == c_str(proxy[s].name)

\* faulty variant of entry_compare_without_ts: a flag byte counts as set only
\* when it is 1
entry_compare_without_ts_flag_one(s, x, fa, y, fb) ==
    compare_without_timestamp(x, fa = 1, y, fb = 1)

\* extern "C" fn compare / compare_ts / compare_without_ts: delegate to the
\* comparator stored in the proxy
entry_compare(s, x, y) == compare(x, y)

entry_compare_ts(s, x, y) == compare_timestamp(x, y)

entry_compare_without_ts(s, x, fa, y, fb) ==
    compare_without_timestamp(x, fa # 0, y, fb # 0)

\* The entry point returns; its frame (the arguments) is gone.
Returned(th, v, bytes) == [th EXCEPT !.pc = "returned", !.a = <<>>, !.b = <<>>,
                                    !.a_has_ts_raw = 0, !.b_has_ts_raw = 0,
                                    !.ret = v, !.str = bytes]

ReturnName(t) ==
    LET s == dbcmp[threads[t].cmp].state
    IN  /\ threads[t].pc = "running"
        /\ threads[t].entry = "name"
        /\ \E bytes \in (IF proxy[s].status = "live" THEN {name(s)} ELSE GarbageNames) :
              threads' = [threads EXCEPT ![t] = Returned(@, 0, bytes)]
        /\ proxy' = entry_borrows(s)
        /\ UNCHANGED <<call, store, rd, dbcmp, wrappers, created, ffiCreates, destructed>>

ReturnCompare(t) ==
    LET th == threads[t]
        s == dbcmp[th.cmp].state
        r == IF th.entry = "compare" THEN entry_compare(s, th.a, th.b)
             ELSE IF th.entry = "compare_ts" THEN entry_compare_ts(s, th.a, th.b)
             ELSE entry_compare_without_ts(s, th.a, th.a_has_ts_raw,
                                           th.b, th.b_has_ts_raw)
    IN  /\ th.pc = "running"
        /\ th.entry \in {"compare", "compare_ts", "compare_without_ts"}
        /\ \E v \in (IF proxy[s].status = "live" THEN {r.val} ELSE GarbageInts) :
              threads' = [threads EXCEPT ![t] = Returned(@, v, <<>>)]
        /\ proxy' = entry_borrows(s)
        /\ UNCHANGED <<call, store, rd, dbcmp, wrappers, created, ffiCreates, destructed>>

Next ==
    \/ Create
    \/ \E d \in Addrs : Drop(d)
    \/ InvokeName
    \/ InvokeCompare
    \/ InvokeCompareTs
    \/ InvokeCompareWithoutTs
    \/ \E t \in Threads : ReturnName(t)
    \/ \E t \in Threads : ReturnCompare(t)

Spec == Init /\ [][Next]_vars

SpecCmp == InitCmp /\ [][NextCmp]_vars


(***************************************************************************)
(* Properties of ComparatorWithU64, checked under SpecCmp.                 *)
(***************************************************************************)
IsFullKey(k) == Len(k) > timestamp_size
RawPart(k) == SubSeq(k, 1, Len(k) - timestamp_size)
TsPart(k) == u64_from_be(SubSeq(k, Len(k) - timestamp_size + 1, Len(k)))

\* C1: for two full keys (each longer than the timestamp width) whose raw keys
\* are equal under compare_without_timestamp, compare(a, b) is negative when
\* a's timestamp is larger, positive when it is smaller, zero when both are
\* equal: the larger timestamp orders first.
C1_TieBreakInversion ==
    (/\ call.op = "compare"
     /\ IsFullKey(call.a) /\ IsFullKey(call.b)
     /\ compare_without_timestamp(call.a, TRUE, call.b, TRUE) = Ok(0))
    => /\ call.ret.ok
       /\ TsPart(call.a) > TsPart(call.b) => call.ret.val < 0
       /\ TsPart(call.a) < TsPart(call.b) => call.ret.val > 0
       /\ TsPart(call.a) = TsPart(call.b) => call.ret.val = 0

C1_Witness ==
    /\ call.op = "compare"
    /\ IsFullKey(call.a) /\ IsFullKey(call.b)
    /\ RawPart(call.a) = RawPart(call.b)
    /\ TsPart(call.a) = 256 /\ TsPart(call.b) = 2
    /\ call.ret = Ok(-1)

\* C2: for two full keys whose raw keys differ under
\* compare_without_timestamp(a, true, b, true), compare(a, b) returns exactly
\* that value, and returns it whatever timestamps the two raw keys carry.
C2_RawKeyPrecedence ==
    (/\ call.op = "compare"
     /\ IsFullKey(call.a) /\ IsFullKey(call.b)
     /\ compare_without_timestamp(call.a, TRUE, call.b, TRUE).val # 0)
    => /\ call.ret = compare_without_timestamp(call.a, TRUE, call.b, TRUE)
       /\ call.ret = Ok(LexSign(RawPart(call.a), RawPart(call.b)))
       /\ \A t1 \in Timestamps, t2 \in Timestamps :
             compare(RawPart(call.a) \o t1, RawPart(call.b) \o t2) = call.ret

C2_Witness ==
    /\ call.op = "compare"
    /\ IsFullKey(call.a) /\ IsFullKey(call.b)
    /\ LexLess(RawPart(call.a), RawPart(call.b))
    /\ TsPart(call.a) < TsPart(call.b)
    /\ call.ret = Ok(-1)

\* C3: compare is a strict weak ordering: compare(a, b) and compare(b, a)
\* have opposite signs (and one returns exactly when the other does),
\* compare(a,b) = 0 and compare(b,c) = 0 imply compare(a,c) = 0, and
\* compare(a,b) < 0 and compare(b,c) < 0 imply compare(a,c) < 0, for every
\* third key c.
C3_StrictWeakOrdering ==
    call.op = "compare" =>
        LET ab == call.ret
            ba == compare(call.b, call.a)
        IN  /\ ab.ok = ba.ok
            /\ ab.ok => Sign(ab.val) = -Sign(ba.val)
            /\ \A c \in Inputs :
                  LET bc == compare(call.b, c)
                      ac == compare(call.a, c)
                  IN  /\ (ab.ok /\ bc.ok /\ ab.val = 0 /\ bc.val = 0)
                            => (ac.ok /\ ac.val = 0)
                      /\ (ab.ok /\ bc.ok /\ ab.val < 0 /\ bc.val < 0)
                            => (ac.ok /\ ac.val < 0)

C3_Witness ==
    /\ call.op = "compare"
    /\ call.ret = Ok(-1)
    /\ RawPart(call.a) = RawPart(call.b)
    /\ \E c \in FullKeys :
          /\ RawPart(c) # RawPart(call.b)
          /\ compare(call.b, c) = Ok(-1)
          /\ compare(call.a, c) = Ok(-1)
          /\ compare(c, call.a) = Ok(1)

\* The case of C4: a is b followed by a timestamp, a flagged, b not.
BareVsSuffixed ==
    /\ call.op = "compare_without_timestamp"
    /\ call.a_has_ts /\ ~call.b_has_ts
    /\ \E t \in Timestamps : call.a = call.b \o t

\* C4 as stated: compare_without_timestamp(raw||ts, true, raw, false) = 0
\* for any raw key and any timestamp of timestamp_size bytes.
C4_AnyRawKey == BareVsSuffixed => call.ret = Ok(0)

\* C4, amended: compare_without_timestamp(raw||ts, true, raw, false) = 0 for
\* any non-empty raw key and any timestamp of timestamp_size bytes; for the
\* empty raw key the call panics.
C4_BareVsSuffixed ==
    BareVsSuffixed => (IF call.b = <<>> THEN ~call.ret.ok ELSE call.ret = Ok(0))

C4_Witness ==
    /\ BareVsSuffixed
    /\ Len(call.b) = MaxRawLen
    /\ call.ret = Ok(0)

\* C5: compare_timestamp(a, b) is the sign of the byte-lexicographic
\* comparison of a and b, and for the 8-byte big-endian encodings of two
\* unsigned integers x and y it is the sign of the numeric comparison.
C5_TimestampOrder ==
    call.op = "compare_timestamp" =>
        /\ call.ret = Ok(LexSign(call.a, call.b))
        /\ \A x \in TsVals, y \in TsVals :
              (call.a = to_be_bytes(x) /\ call.b = to_be_bytes(y))
                  => call.ret = Ok(Sign(x - y))

C5_Witness ==
    /\ call.op = "compare_timestamp"
    /\ call.a = to_be_bytes(1) /\ call.b = to_be_bytes(256)
    /\ call.ret = Ok(-1)

\* The raw key an operand stands for.
RawOf(k, has_ts) == IF has_ts THEN RawPart(k) ELSE k

\* C6: compare_without_timestamp panics exactly when a flagged operand is
\* not longer than timestamp_size, and compare exactly when either operand
\* is not; an unflagged operand is accepted at any length and compared as it
\* is.
C6_PreconditionAborts ==
    /\ call.op = "compare_without_timestamp" =>
          /\ call.ret.ok <=> /\ (call.a_has_ts => IsFullKey(call.a))
                             /\ (call.b_has_ts => IsFullKey(call.b))
          /\ call.ret.ok => call.ret.val = LexSign(RawOf(call.a, call.a_has_ts),
                                                   RawOf(call.b, call.b_has_ts))
    /\ call.op = "compare" =>
          (call.ret.ok <=> (IsFullKey(call.a) /\ IsFullKey(call.b)))

C6_Witness ==
    /\ call.op = "compare_without_timestamp"
    /\ call.a_has_ts /\ Len(call.a) = timestamp_size
    /\ ~call.b_has_ts /\ call.b = <<>>
    /\ ~call.ret.ok


(***************************************************************************)
(* Properties of the bridge, checked under Spec.                           *)
(***************************************************************************)
OkCreates == {i \in 1..Len(created) : created[i].ok}
Allocated == {s \in Addrs : proxy[s].status # "unallocated"}
Installed == {d \in Addrs : dbcmp[d].status # "none"}
LiveCapabilities == {s \in Addrs : proxy[s].status = "live"}
RunningOn(t, d) == threads[t].pc = "running" /\ threads[t].cmp = d

\* C7: new_timestamp_aware_comparator returns Err exactly for a name with an
\* interior NUL byte; an Err call yields no handle, allocates no proxy,
\* does not call crocksdb_comparator_create and installs no comparator; a
\* NUL-free name always yields a handle of its own.
C7_InvalidName ==
    /\ \A i \in 1..Len(created) :
          /\ created[i].ok <=> ~HasNul(created[i].name)
          /\ ~created[i].ok => created[i].inner = 0
          /\ created[i].ok => created[i].inner \in Installed
    /\ \A i \in OkCreates, j \in OkCreates :
          created[i].inner = created[j].inner => i = j
    /\ Cardinality(Allocated) = Cardinality(OkCreates)
    /\ ffiCreates = Cardinality(OkCreates)
    /\ Cardinality(Installed) = Cardinality(OkCreates)

C7_Witness ==
    /\ Len(created) = 2
    /\ HasNul(created[1].name) /\ ~created[1].ok
    /\ created[2].name = <<>> /\ created[2].ok
    /\ Cardinality(Allocated) = 1

\* C8: the proxy of each successful create is reclaimed by exactly one
\* destructor call, made when its wrapper is dropped: no destructor call
\* while the wrapper lives, exactly one once it is dropped, never two; with
\* every wrapper dropped no wrapped comparator is left.
C8_SingleDestruction ==
    /\ \A s \in Addrs :
          /\ destructed[s] <= 1
          /\ proxy[s].status = "unallocated" => destructed[s] = 0
    /\ \A d \in Installed :
          LET s == dbcmp[d].state
          IN  /\ d \in wrappers => (proxy[s].status = "live" /\ destructed[s] = 0)
              /\ d \notin wrappers => (proxy[s].status = "freed" /\ destructed[s] = 1)
    /\ wrappers \subseteq Installed
    /\ wrappers = {} => LiveCapabilities = {}

C8_Witness ==
    /\ Cardinality({s \in Addrs : destructed[s] = 1}) = 2
    /\ wrappers = {}
    /\ LiveCapabilities = {}

NameGiven(d) ==
    created[CHOOSE i \in 1..Len(created) : created[i].ok /\ created[i].inner = d].name

NameReturnsGiven ==
    \A t \in Threads :
        (threads[t].pc = "returned" /\ threads[t].entry = "name")
            => threads[t].str = NameGiven(threads[t].cmp)

NameStepKeepsState ==
    \A t \in Threads :
        (threads[t].pc = "running" /\ threads[t].entry = "name"
            /\ threads'[t].pc = "returned")
            => UNCHANGED <<proxy, dbcmp, wrappers, destructed>>

\* C10: every return of the name entry point yields exactly the bytes passed
\* as the name when the comparator was created, also while compare calls are
\* in flight on the same comparator, and a name call changes nothing of the
\* comparator's state.
C10_NameStability == []NameReturnsGiven /\ [][NameStepKeepsState]_vars

C10_Witness ==
    \E d \in Addrs, t \in Threads, u \in Threads :
        /\ threads[t].pc = "returned" /\ threads[t].entry = "name"
        /\ threads[t].cmp = d /\ threads[t].str = <<98, 99>>
        /\ RunningOn(u, d) /\ threads[u].entry = "compare"


(***************************************************************************)
(* The engine's store under the comparator.  Every entry carries the user  *)
(* key raw||ts, the sequence number of its write and its payload; the      *)
(* entries are kept in the order of compare, newest write first among      *)
(* equal user keys.                                                        *)
(***************************************************************************)
\* the writes made of a store, a file counted as one
MaxWrites == 2
DbKeys == {<<1>>, <<1, 2>>}
DbTs == {1, 2, 256}
ReadTs == DbTs \cup {0}

UserKey(k, ts) == k \o to_be_bytes(ts)

\* the value of the write with sequence number n
ValueOf(n) == <<100 + n>>

LastSeq == IF store = <<>> THEN 0
           ELSE CHOOSE n \in {store[i].seq : i \in 1..Len(store)} :
                    \A i \in 1..Len(store) : store[i].seq <= n

\* e is before f: by compare on the user keys, then the later write first
InternalLess(e, f) ==
    \/ compare(e.key, f.key).val < 0
    \/ compare(e.key, f.key).val = 0 /\ e.seq > f.seq

\* the store with e added at its place
Insert(st, e) ==
    LET before == Cardinality({i \in 1..Len(st) : InternalLess(st[i], e)})
    IN  SubSeq(st, 1, before) \o <<e>> \o SubSeq(st, before + 1, Len(st))

\* DB::put_with_ts(k, ts, value)
PutWithTs ==
    \E k \in DbKeys, ts \in DbTs :
        /\ LastSeq < MaxWrites
        /\ store' = Insert(store, [key |-> UserKey(k, ts), seq |-> LastSeq + 1,
                                   type |-> "put", value |-> ValueOf(LastSeq + 1)])
        /\ rd' = NoRead
        /\ UNCHANGED <<call, bridgeVars>>

\* DB::delete_with_ts(k, ts)
DeleteWithTs ==
    \E k \in DbKeys, ts \in DbTs :
        /\ LastSeq < MaxWrites
        /\ store' = Insert(store, [key |-> UserKey(k, ts), seq |-> LastSeq + 1,
                                   type |-> "del", value |-> <<>>])
        /\ rd' = NoRead
        /\ UNCHANGED <<call, bridgeVars>>

\* SstFileWriter::put_with_ts of two raw keys at one timestamp, in the
\* comparator's order, then DB::ingest_external_file_cf: the entries of the
\* file get one sequence number, above every one in the store
IngestExternalFile ==
    \E k1 \in DbKeys, k2 \in DbKeys, ts \in DbTs :
        /\ LastSeq < MaxWrites
        /\ compare(UserKey(k1, ts), UserKey(k2, ts)).val < 0
        /\ store' = Insert(Insert(store,
                        [key |-> UserKey(k1, ts), seq |-> LastSeq + 1,
                         type |-> "put", value |-> ValueOf(LastSeq + 1)]),
                        [key |-> UserKey(k2, ts), seq |-> LastSeq + 1,
                         type |-> "put", value |-> ValueOf(LastSeq + 1)])
        /\ rd' = NoRead
        /\ UNCHANGED <<call, bridgeVars>>

\* what a read yields for an entry
Item(e) == [key |-> strip_timestamp_from_user_key(e.key),
            ts |-> extract_timestamp_from_user_key(e.key),
            value |-> e.value]

\* the point lookup in the store st: seek to the first entry not before
\* k||T; it is the answer when it is an entry of k and no tombstone
GetFrom(st, k, T) ==
    LET lookup == UserKey(k, T)
        at == {i \in 1..Len(st) : compare(st[i].key, lookup).val >= 0}
    IN  IF at = {} THEN <<>>
        ELSE LET i == CHOOSE j \in at : \A h \in at : j <= h
                 e == st[i]
             IN  IF compare_without_timestamp(e.key, TRUE, k, FALSE).val # 0 THEN <<>>
                 ELSE IF e.type = "del" THEN <<>>
                 ELSE <<Item(e)>>

Get(k, T) == GetFrom(store, k, T)

\* DB::get_opt / get_cf_opt_ts with ReadOptions::set_timestamp(T); rd keeps
\* the read made of the store as it is, until the next write
GetOpt ==
    \E k \in DbKeys, T \in ReadTs :
        /\ rd.op = "none"
        /\ rd' = [op |-> "get", key |-> k, T |-> T, S |-> 0, out |-> Get(k, T)]
        /\ UNCHANGED <<call, bridgeVars, store>>

\* the timestamp of e is within [S, T] by compare_timestamp
InRange(e, T, S) ==
    /\ compare_timestamp(extract_timestamp_from_user_key(e.key), to_be_bytes(T)).val <= 0
    /\ compare_timestamp(extract_timestamp_from_user_key(e.key), to_be_bytes(S)).val >= 0

\* seek_to_first and next to the end, with a read timestamp alone: the first
\* entry of a raw key that is not above T decides the key, a tombstone hides
\* it; saved is <<>> or the one raw key that is decided
RECURSIVE FwdLatest(_, _, _)
FwdLatest(i, T, saved) ==
    IF i > Len(store) THEN <<>>
    ELSE LET e == store[i]
         IN  IF ~InRange(e, T, 0) THEN FwdLatest(i + 1, T, saved)
             ELSE IF /\ saved # <<>>
                     /\ compare_without_timestamp(e.key, TRUE, saved[1], FALSE).val = 0
                  THEN FwdLatest(i + 1, T, saved)
             ELSE (IF e.type = "put" THEN <<Item(e)>> ELSE <<>>)
                  \o FwdLatest(i + 1, T, <<strip_timestamp_from_user_key(e.key)>>)

\* seek_to_first and next to the end, with a read timestamp and a start
\* timestamp: every user key in range is yielded once, by its latest write;
\* last is <<>> or the user key yielded last
RECURSIVE FwdRange(_, _, _, _)
FwdRange(i, T, S, last) ==
    IF i > Len(store) THEN <<>>
    ELSE LET e == store[i]
         IN  IF ~InRange(e, T, S) THEN FwdRange(i + 1, T, S, last)
             ELSE IF last # <<>> /\ compare(e.key, last[1]).val = 0
                  THEN FwdRange(i + 1, T, S, last)
             ELSE <<Item(e)>> \o FwdRange(i + 1, T, S, <<e.key>>)

\* prev to the start, from the entry at i: an entry is passed over when a
\* later write of its user key stands before it
RECURSIVE BwdRange(_, _, _)
BwdRange(i, T, S) ==
    IF i < 1 THEN <<>>
    ELSE LET e == store[i]
         IN  IF ~InRange(e, T, S) THEN BwdRange(i - 1, T, S)
             ELSE IF i > 1 /\ compare(store[i - 1].key, e.key).val = 0
                  THEN BwdRange(i - 1, T, S)
             ELSE <<Item(e)>> \o BwdRange(i - 1, T, S)

\* seek_for_prev(k) of a key without timestamp: the target is k with the
\* start timestamp, the position the last entry not after it
SeekForPrev(k, T, S) ==
    LET at == {i \in 1..Len(store) : compare(store[i].key, UserKey(k, S)).val <= 0}
    IN  IF at = {} THEN <<>>
        ELSE BwdRange(CHOOSE j \in at : \A h \in at : h <= j, T, S)

\* DB::iter_opt with set_timestamp(T): seek_to_first, next until invalid
IterLatest ==
    \E T \in ReadTs :
        /\ rd.op = "none"
        /\ rd' = [op |-> "iter", key |-> <<>>, T |-> T, S |-> 0,
                  out |-> FwdLatest(1, T, <<>>)]
        /\ UNCHANGED <<call, bridgeVars, store>>

\* DB::iter_opt with set_timestamp(T) and set_iter_start_ts(S)
IterRange ==
    \E T \in DbTs, S \in DbTs :
        /\ rd.op = "none"
        /\ rd' = [op |-> "range", key |-> <<>>, T |-> T, S |-> S,
                  out |-> FwdRange(1, T, S, <<>>)]
        /\ UNCHANGED <<call, bridgeVars, store>>

\* the same iterator: seek_for_prev(k), prev until invalid
IterSeekForPrev ==
    \E k \in DbKeys, T \in DbTs, S \in DbTs :
        /\ rd.op = "none"
        /\ rd' = [op |-> "prev", key |-> k, T |-> T, S |-> S,
                  out |-> SeekForPrev(k, T, S)]
        /\ UNCHANGED <<call, bridgeVars, store>>

NextDb ==
    \/ PutWithTs
    \/ DeleteWithTs
    \/ IngestExternalFile
    \/ GetOpt
    \/ IterLatest
    \/ IterRange
    \/ IterSeekForPrev

SpecDb == Init /\ [][NextDb]_vars

(***************************************************************************)
(* Properties of timestamped reads and writes.                             *)
(***************************************************************************)
\* the entries written, whatever their place in the store
Written == {store[i] : i \in 1..Len(store)}

\* the versions: of every (raw key, timestamp) the write made last
Versions == {e \in Written : \A f \in Written : f.key = e.key => f.seq <= e.seq}

\* the versions of raw key k with a timestamp from lo to hi
VersionsOf(k, lo, hi) ==
    {e \in Versions : /\ RawPart(e.key) = k
                      /\ lo <= TsPart(e.key)
                      /\ TsPart(e.key) <= hi}

\* the version of k a read at T sees: the one of the largest timestamp <= T
Visible(k, T) ==
    {e \in VersionsOf(k, 0, T) :
        \A f \in VersionsOf(k, 0, T) : TsPart(f.key) <= TsPart(e.key)}

\* what a read reports of version e
Reported(e) == [key |-> RawPart(e.key), ts |-> to_be_bytes(TsPart(e.key)),
                value |-> e.value]

\* C11: a read of raw key k at target timestamp T returns the value and the
\* timestamp of the version of k with the largest timestamp <= T, and
\* not-found when there is no such version or it is a tombstone; a tombstone
\* at a timestamp above T hides nothing from the read at T.
C11_PointReadVisibility ==
    rd.op = "get" =>
        /\ \A e \in Visible(rd.key, rd.T) :
              rd.out = IF e.type = "del" THEN <<>> ELSE <<Reported(e)>>
        /\ Visible(rd.key, rd.T) = {} => rd.out = <<>>
        /\ \A d \in Versions, e \in Visible(rd.key, rd.T) :
              (/\ d.type = "del"
               /\ RawPart(d.key) = rd.key
               /\ TsPart(d.key) > rd.T
               /\ e.type = "put") => rd.out = <<Reported(e)>>

\* a read below a tombstone returns the older value
C11_Witness ==
    /\ rd.op = "get"
    /\ rd.out # <<>>
    /\ \E d \in Versions : /\ d.type = "del"
                           /\ RawPart(d.key) = rd.key
                           /\ rd.T < TsPart(d.key)
                           /\ TsPart(d.key) < 256

\* item x is before item y: by raw key ascending, then by timestamp descending
ItemBefore(x, y) ==
    \/ LexLess(x.key, y.key)
    \/ x.key = y.key /\ u64_from_be(x.ts) > u64_from_be(y.ts)

\* the versions of any raw key with a timestamp from lo to hi
VersionsIn(lo, hi) == UNION {VersionsOf(k, lo, hi) : k \in DbKeys}

\* C12: forward iteration with target timestamp T and start timestamp S yields
\* every version whose timestamp lies in [S, T], each once, raw keys ascending
\* and newest first within a raw key, tombstones included with an empty value.
C12_ForwardRange ==
    rd.op = "range" =>
        /\ {rd.out[i] : i \in 1..Len(rd.out)}
              = {Reported(e) : e \in VersionsIn(rd.S, rd.T)}
        /\ \A i, j \in 1..Len(rd.out) : i < j => ItemBefore(rd.out[i], rd.out[j])
        /\ \A e \in VersionsIn(rd.S, rd.T) :
              e.type = "del" =>
                  \E i \in 1..Len(rd.out) : /\ rd.out[i].key = RawPart(e.key)
                                            /\ rd.out[i].ts = to_be_bytes(TsPart(e.key))
                                            /\ rd.out[i].value = <<>>

\* an iteration over [1, 256] that yields a tombstone above an older value of
\* the same raw key, then another raw key
C12_Witness ==
    /\ rd.op = "range"
    /\ rd.S < rd.T
    /\ Len(rd.out) = 3
    /\ rd.out[1].key = rd.out[2].key
    /\ rd.out[1].value = <<>>
    /\ rd.out[2].value # <<>>
    /\ rd.out[3].key # rd.out[1].key
    /\ u64_from_be(rd.out[1].ts) = 256

\* the values a read at T sees: of every raw key its visible version, when
\* that is no tombstone
VisibleValues(T) ==
    UNION {{e \in Visible(k, T) : e.type = "put"} : k \in DbKeys}

\* C13: forward iteration with target timestamp T and no start timestamp
\* yields at most one entry per raw key, raw keys ascending: the version with
\* the largest timestamp <= T, with its timestamp and value; a raw key whose
\* such version is a tombstone, or that has none, is skipped.
C13_ForwardLatest ==
    rd.op = "iter" =>
        /\ {rd.out[i] : i \in 1..Len(rd.out)} = {Reported(e) : e \in VisibleValues(rd.T)}
        /\ \A i, j \in 1..Len(rd.out) : i < j => LexLess(rd.out[i].key, rd.out[j].key)
        /\ \A k \in DbKeys :
              (\A e \in Visible(k, rd.T) : e.type = "del") =>
                  \A i \in 1..Len(rd.out) : rd.out[i].key # k

\* an iteration that skips a raw key whose visible version is a tombstone
\* above an older value, and yields the other raw key
C13_Witness ==
    /\ rd.op = "iter"
    /\ Len(rd.out) = 1
    /\ \E d \in Versions, e \in Versions :
          /\ d.type = "del"
          /\ e.type = "put"
          /\ RawPart(d.key) = RawPart(e.key)
          /\ RawPart(d.key) # rd.out[1].key
          /\ TsPart(e.key) < TsPart(d.key)
          /\ TsPart(d.key) <= rd.T

Reverse(s) == [i \in 1..Len(s) |-> s[Len(s) + 1 - i]]

\* raw key x is not after raw key k
RawLeq(x, k) == x = k \/ LexLess(x, k)

\* the forward sequence over [S, T], up to the last version of the raw keys
\* not after k
ForwardUpTo(k, T, S) ==
    LET NotAfter(x) == RawLeq(x.key, k)
    IN  SelectSeq(FwdRange(1, T, S, <<>>), NotAfter)

\* C14: with target timestamp T and start timestamp S, seek_for_prev on a
\* bare raw key k positions on the oldest version in [S, T] of the greatest
\* raw key <= k, and the prev calls yield the reverse of the forward sequence
\* from there: raw keys descending, oldest first within a raw key, tombstones
\* with an empty value.
C14_BackwardMirrorsForward ==
    rd.op = "prev" =>
        /\ rd.out = Reverse(ForwardUpTo(rd.key, rd.T, rd.S))
        /\ {rd.out[i] : i \in 1..Len(rd.out)}
              = {Reported(e) : e \in {f \in VersionsIn(rd.S, rd.T) :
                                          RawLeq(RawPart(f.key), rd.key)}}
        /\ \A i, j \in 1..Len(rd.out) : i < j => ItemBefore(rd.out[j], rd.out[i])
        /\ rd.out # <<>> =>
              \A e \in VersionsIn(rd.S, rd.T) :
                  RawLeq(RawPart(e.key), rd.key) =>
                      \/ LexLess(RawPart(e.key), rd.out[1].key)
                      \/ /\ RawPart(e.key) = rd.out[1].key
                         /\ u64_from_be(rd.out[1].ts) <= TsPart(e.key)

\* seek_for_prev on the greatest raw key, over [1, 256]: its one version
\* first, then the other raw key, the old value before the tombstone
C14_Witness ==
    /\ rd.op = "prev"
    /\ rd.S < rd.T
    /\ Len(rd.out) = 3
    /\ rd.out[1].key = rd.key
    /\ rd.out[2].key # rd.key
    /\ rd.out[3].key = rd.out[2].key
    /\ rd.out[2].value # <<>>
    /\ rd.out[3].value = <<>>
    /\ u64_from_be(rd.out[2].ts) < u64_from_be(rd.out[3].ts)

\* a read at (k, T) when (k, T) was written more than once returns the value
\* written last, none of the values written before
LastWriteRead ==
    rd.op = "get" =>
        \A e \in Versions, f \in Written \ Versions :
            (/\ e.key = UserKey(rd.key, rd.T)
             /\ f.key = e.key
             /\ e.type = "put") =>
                /\ rd.out = <<Reported(e)>>
                /\ rd.out # <<Reported(f)>>

\* a write leaves the reads at the other (raw key, timestamp) written as
\* they were
OthersUnaffected ==
    store' # store =>
        LET was == store
            now == store'
            added == {now[i] : i \in 1..Len(now)} \ {was[i] : i \in 1..Len(was)}
        IN  \A k \in DbKeys, T \in DbTs :
                (/\ \E i \in 1..Len(was) : was[i].key = UserKey(k, T)
                 /\ \A n \in added : n.key # UserKey(k, T))
                    => GetFrom(now, k, T) = GetFrom(was, k, T)

CapabilityResult(th) ==
    IF th.entry = "compare" THEN compare(th.a, th.b).val
    ELSE IF th.entry = "compare_ts" THEN compare_timestamp(th.a, th.b).val
    ELSE compare_without_timestamp(th.a, th.a_has_ts_raw # 0,
                                   th.b, th.b_has_ts_raw # 0).val

\* an entry point returns what the operation of its name returns
ReturnsCapabilityResult ==
    \A t \in Threads :
        (/\ threads[t].pc = "running"
         /\ threads[t].entry \in {"compare", "compare_ts", "compare_without_ts"}
         /\ threads'[t].pc = "returned")
            => threads'[t].ret = CapabilityResult(threads[t])

\* the name and the capability stored for a handle change only when the
\* destructor reclaims them; a step of an entry point leaves them as they are
StoredStateKept ==
    /\ \A s \in Addrs :
          (proxy[s].status = "live" /\ proxy'[s] # proxy[s])
              => /\ proxy'[s].status = "freed"
                 /\ destructed'[s] = destructed[s] + 1
    /\ threads' # threads => proxy' = proxy

\* C16: for a handle created over a capability, the compare, compare_ts and
\* compare_without_ts entry points each return the value the capability's
\* compare, compare_timestamp and compare_without_timestamp returns on the
\* same bytes, a flag byte meaning has-timestamp iff it is non-zero, and no
\* entry point but the destructor changes the stored name or capability.
C16_TransparentAdapter ==
    [][ReturnsCapabilityResult /\ StoredStateKept]_vars

\* compare has returned 1 and compare_without_ts, called with flag bytes 0,
\* has returned -1, on a comparator that is live with its name
C16_Witness ==
    \E d \in Addrs :
        /\ dbcmp[d].status = "live"
        /\ proxy[dbcmp[d].state].name = <<98, 99, 0>>
        /\ threads["t1"].pc = "returned" /\ threads["t1"].cmp = d
        /\ threads["t1"].entry = "compare" /\ threads["t1"].ret = 1
        /\ threads["t2"].pc = "returned" /\ threads["t2"].cmp = d
        /\ threads["t2"].entry = "compare_without_ts" /\ threads["t2"].ret = -1

====
